---- MODULE Spec2Model ----
(***************************************************************************)
(* A model of the `logcall` attribute macro (src/src/lib.rs).              *)
(*                                                                         *)
(* One behaviour is one use of the macro on one function: the directive    *)
(* is parsed (MacroArgs::parse), the function is rewritten (logcall and    *)
(* the gen_* helpers), and the rewritten function is then called once.     *)
(* The default build is modelled: neither the `structured-logging` nor the *)
(* `format-display` feature is enabled.                                    *)
(***************************************************************************)
EXTENDS Naturals, Sequences, FiniteSets, TLC

(***************************************************************************)
(* Bounds of the model.                                                    *)
(***************************************************************************)
\* the number of `name = value` entries one directive may hold
MaxEntries == 3
\* the number of parameters the annotated function may declare
MaxParams == 2
\* the number of times the directive may be stacked on one function
MaxApplications == 2

(***************************************************************************)
(* Option<T>: None is the empty sequence, Some(x) a one-element sequence.  *)
(***************************************************************************)
None == <<>>
Some(x) == <<x>>
is_some(o) == o # <<>>
is_none(o) == o = <<>>
unwrap(o) == o[1]

(***************************************************************************)
(* Strings the macro inspects are sequences of one-character strings, so   *)
(* that trimming and lowercasing are computed and not assumed.             *)
(***************************************************************************)
Quote == "\""
s_error == <<"e", "r", "r", "o", "r">>
s_warn == <<"w", "a", "r", "n">>
s_info == <<"i", "n", "f", "o">>
s_debug == <<"d", "e", "b", "u", "g">>
s_trace == <<"t", "r", "a", "c", "e">>
s_WARN == <<"W", "A", "R", "N">>
s_true == <<"t", "r", "u", "e">>

\* The token text of a string literal: the content between two quotes.
StrLit(s) == <<Quote>> \o s \o <<Quote>>
\* The token text of the boolean literal `true`.
BoolLitTrue == s_true

RECURSIVE trim_start_matches(_)
trim_start_matches(s) ==
    IF s # <<>> /\ Head(s) = Quote THEN trim_start_matches(Tail(s)) ELSE s

RECURSIVE trim_end_matches(_)
trim_end_matches(s) ==
    IF s # <<>> /\ s[Len(s)] = Quote
    THEN trim_end_matches(SubSeq(s, 1, Len(s) - 1))
    ELSE s

trim_quotes(maybe_quoted) == trim_end_matches(trim_start_matches(maybe_quoted))

to_lowercase_char(c) ==
    CASE c = "A" -> "a" [] c = "B" -> "b" [] c = "C" -> "c" [] c = "D" -> "d"
      [] c = "E" -> "e" [] c = "F" -> "f" [] c = "G" -> "g" [] c = "H" -> "h"
      [] c = "I" -> "i" [] c = "J" -> "j" [] c = "K" -> "k" [] c = "L" -> "l"
      [] c = "M" -> "m" [] c = "N" -> "n" [] c = "O" -> "o" [] c = "P" -> "p"
      [] c = "Q" -> "q" [] c = "R" -> "r" [] c = "S" -> "s" [] c = "T" -> "t"
      [] c = "U" -> "u" [] c = "V" -> "v" [] c = "W" -> "w" [] c = "X" -> "x"
      [] c = "Y" -> "y" [] c = "Z" -> "z" [] OTHER -> c

to_lowercase(s) == [i \in 1..Len(s) |-> to_lowercase_char(s[i])]

contains(seq, x) == \E i \in 1..Len(seq) : seq[i] = x

(***************************************************************************)
(* The directive's syntax tree (syn): expressions and name = value entries.*)
(***************************************************************************)
ExprLit(tok) == [expr |-> "Lit", lit |-> tok, path |-> <<>>, elems |-> <<>>]
ExprPath(segments) == [expr |-> "Path", lit |-> <<>>, path |-> segments, elems |-> <<>>]
ExprArray(elems) == [expr |-> "Array", lit |-> <<>>, path |-> <<>>, elems |-> elems]

MetaNameValue(path, value) == [path |-> path, value |-> value]

\* Path::get_ident: Some(ident) for a path of one segment.
get_ident(path) == IF Len(path) = 1 THEN Some(path[1]) ELSE None

\* The literal tokens a directive of the model may hold.
LitTokens == {StrLit(s_info), StrLit(s_WARN), StrLit(s_true), BoolLitTrue}

\* The values a `name = value` entry of the model may hold.
EntryValues ==
    {ExprLit(t) : t \in LitTokens}
        \cup {ExprArray(<<>>), ExprArray(<<ExprPath(<<"a">>)>>),
              ExprArray(<<ExprPath(<<"b">>)>>),
              ExprArray(<<ExprLit(StrLit(<<"a">>))>>)}
        \cup {ExprPath(<<"x">>)}

\* The names a `name = value` entry of the model may have.
EntryPaths ==
    {<<"ingress">>, <<"egress">>, <<"ok">>, <<"err">>, <<"skip">>, <<"debug">>,
     <<"bogus">>, <<"log", "level">>}

NameValues == {MetaNameValue(p, v) : p \in EntryPaths, v \in EntryValues}

(***************************************************************************)
(* LogEgressArgs and MacroArgs.                                            *)
(***************************************************************************)
Simple(level) ==
    [variant |-> "Simple", level |-> level, ok_level |-> None, err_level |-> None]
Result(ok_level, err_level) ==
    [variant |-> "Result", level |-> <<>>, ok_level |-> ok_level, err_level |-> err_level]

Error(kind, name, value) == [kind |-> kind, name |-> name, value |-> value]

(***************************************************************************)
(* The annotated function (syn::ItemFn), as far as the macro looks at it.  *)
(***************************************************************************)
Typed(pat, ident) == [arg |-> "Typed", pat |-> pat, ident |-> ident]
Receiver == [arg |-> "Receiver", pat |-> "", ident |-> "self"]

ParamNames == <<"a", "b", "c", "d">>

\* The parameter lists of the model: up to MaxParams simple bindings, a lone
\* receiver, and a lone destructuring pattern.
ParamLists ==
    {[i \in 1..k |-> Typed("Ident", ParamNames[i])] : k \in 0..MaxParams}
        \cup {<<Receiver>>, <<Typed("Tuple", "")>>}

(***************************************************************************)
(* The function's block (syn::Block), as far as get_async_trait_info looks *)
(* at it.  The identifiers of a callee path are sequences of characters,   *)
(* so that path_to_string and ends_with are computed.                      *)
(***************************************************************************)
s_Box == <<"B", "o", "x">>
s_pin == <<"p", "i", "n">>
s_MyBox == <<"M", "y", "B", "o", "x">>
s_std == <<"s", "t", "d">>
s_boxed == <<"b", "o", "x", "e", "d">>
s_inner == <<"i", "n", "n", "e", "r">>
s_Box_pin == <<"B", "o", "x", ":", ":", "p", "i", "n">>

ExprCall(func, args) == [expr |-> "Call", func |-> func, args |-> args]
ExprAsync(attrs, capture, block) ==
    [expr |-> "Async", attrs |-> attrs, capture |-> capture, block |-> block]
ExprBlock(block) == [expr |-> "Block", block |-> block]
\* any other expression: the code the user wrote
ExprOther == [expr |-> "Other"]

StmtExpr(expr, semi) == [stmt |-> "Expr", expr |-> expr, semi |-> semi]
StmtLocal == [stmt |-> "Local"]
StmtItemFn(asyncness, ident) == [stmt |-> "Item", asyncness |-> asyncness, ident |-> ident]
StmtMacro == [stmt |-> "Macro"]

Block(stmts) == [stmts |-> stmts]

\* A block of the user's code that is no wrapper: one tail expression.
PlainBlock == Block(<<StmtExpr(ExprOther, FALSE)>>)

AsyncMove == ExprAsync(<<>>, TRUE, PlainBlock)
AsyncNoMove == ExprAsync(<<>>, FALSE, PlainBlock)
AsyncMoveAttr == ExprAsync(<<"#[allow(unused)]">>, TRUE, PlainBlock)
CallInner == ExprCall(ExprPath(<<s_inner>>), <<>>)

BoxPin == ExprPath(<<s_Box, s_pin>>)

\* The callee paths of the model: Box::pin, std::boxed::Box::pin, MyBox::pin, pin.
CalleePaths ==
    {BoxPin, ExprPath(<<s_std, s_boxed, s_Box, s_pin>>), ExprPath(<<s_MyBox, s_pin>>),
     ExprPath(<<s_pin>>)}

\* Blocks whose one statement is a call in tail place.
TailCallBlocks ==
    {Block(<<StmtExpr(ExprCall(BoxPin, args), FALSE)>>) :
        args \in {<<>>, <<AsyncMove>>, <<AsyncNoMove>>, <<AsyncMoveAttr>>,
                  <<AsyncMove, ExprOther>>, <<CallInner>>, <<ExprOther>>}}
      \cup {Block(<<StmtExpr(ExprCall(func, <<AsyncMove>>), FALSE)>>) :
              func \in CalleePaths \cup {ExprOther}}

\* Blocks that declare a function `inner` before the tail call Box::pin(inner()).
LegacyBlocks ==
    {Block(<<StmtItemFn(asyncness, s_inner), StmtExpr(ExprCall(BoxPin, <<CallInner>>), FALSE)>>) :
        asyncness \in BOOLEAN}

\* Blocks whose final statement is no expression statement, or that hold
\* statements before the tail call.
OtherBlocks ==
    {Block(<<>>),
     Block(<<StmtLocal>>),
     Block(<<StmtExpr(ExprCall(BoxPin, <<AsyncMove>>), TRUE), StmtLocal>>),
     Block(<<StmtExpr(ExprCall(BoxPin, <<AsyncMove>>), TRUE), StmtItemFn(FALSE, s_inner)>>),
     Block(<<StmtLocal, StmtExpr(ExprCall(BoxPin, <<AsyncMove>>), FALSE)>>)}

\* The value of the block is a pinned future: its final statement is a call,
\* in tail place, of some `pin` on a suspending block or on another call.
is_pinned_future(block) ==
    /\ block.stmts # <<>>
    /\ LET last == block.stmts[Len(block.stmts)] IN
       /\ last.stmt = "Expr" /\ ~last.semi
       /\ last.expr.expr = "Call"
       /\ last.expr.func.expr = "Path"
       /\ Len(last.expr.args) = 1
       /\ last.expr.args[1].expr \in {"Async", "Call"}

\* The functions of the model.  `future` says that the declared return type is
\* a pinned future of `output`, and not `output` itself.
PlainItemFns ==
    [ident : {"f"}, asyncness : BOOLEAN, inputs : ParamLists,
     output : {"plain", "result"}, block : {PlainBlock}, future : {FALSE},
     attrs : {<<>>}, vis : {None}, constness : {FALSE}, unsafety : {FALSE},
     abi : {None}, gen_params : {<<>>}, where_clause : {None}]

\* Functions with every qualifier the macro copies (a const fn is never async).
QualifiedItemFns ==
    {item \in [ident : {"f"}, asyncness : BOOLEAN, inputs : {<<>>},
               output : {"plain"}, block : {PlainBlock}, future : {FALSE},
               attrs : {<<"#[inline]">>}, vis : {Some("pub")},
               constness : BOOLEAN, unsafety : BOOLEAN,
               abi : {None, Some("extern \"C\"")}, gen_params : {<<"T">>},
               where_clause : {Some("where T: Debug")}] :
        ~(item.constness /\ item.asyncness)}

\* The block #[async_trait] makes of a suspending method.
InlineWrapperBlock == Block(<<StmtExpr(ExprCall(BoxPin, <<AsyncMove>>), FALSE)>>)

\* Synchronous functions whose block the pattern detector has to classify.
WrapperItemFns ==
    {item \in [ident : {"f"}, asyncness : {FALSE}, inputs : {<<Typed("Ident", ParamNames[1])>>},
               output : {"plain", "result"},
               block : TailCallBlocks \cup LegacyBlocks \cup OtherBlocks,
               future : BOOLEAN, attrs : {<<>>}, vis : {None}, constness : {FALSE},
               unsafety : {FALSE}, abi : {None}, gen_params : {<<>>},
               where_clause : {None}] :
        /\ item.future = is_pinned_future(item.block)
        /\ item.output = "result" => item.block = InlineWrapperBlock}

\* The directive, standing on the function once more below the one applied.
LogcallAttr == "#[logcall]"

\* Functions on which the directive is stacked: plain ones, an inline wrapper
\* and one with the qualifiers `async unsafe`.
StackedItemFns ==
    {[item EXCEPT !.attrs = <<LogcallAttr>>] :
        item \in {i \in PlainItemFns : Len(i.inputs) = 1 /\ i.inputs[1].pat = "Ident"}
                  \cup {i \in WrapperItemFns : i.block = InlineWrapperBlock}
                  \cup {i \in QualifiedItemFns : i.unsafety /\ i.asyncness /\ is_none(i.abi)}}

ItemFns == PlainItemFns \cup QualifiedItemFns \cup WrapperItemFns \cup StackedItemFns

VARIABLES
    pc,             \* where the macro invocation, then the call, stands
    legacy_output,  \* MacroArgs::parse: the leading bare literal
    ok, err, ingress, egress, skip, debug,  \* MacroArgs::parse: its locals
    n_entries,      \* how many name = value entries were read
    macro_args,     \* the parsed MacroArgs, once there is one
    fn_item,        \* the annotated function, once the macro has read it
    tokens,         \* the rewritten function the macro returns
    error,          \* the failure the invocation ended with, if any
    params_in,      \* the call: the value of each parameter at entry
    trace,          \* the call: the log events and the body's run, in order
    params_out,     \* the call: the value of each parameter after the user's code
    returned,       \* the call: the value handed to the caller
    applications    \* how many times the macro was applied to the function

vars == <<pc, legacy_output, ok, err, ingress, egress, skip, debug, n_entries,
          macro_args, fn_item, tokens, error, params_in, params_out, trace, returned,
          applications>>

call_vars == <<params_in, params_out, trace, returned>>

Init ==
    /\ pc = "args"
    /\ legacy_output = None
    /\ ok = None /\ err = None /\ ingress = None /\ egress = None
    /\ skip = None /\ debug = None
    /\ n_entries = 0
    /\ macro_args = None
    /\ fn_item = None
    /\ tokens = None
    /\ error = None
    /\ params_in = None
    /\ params_out = None
    /\ trace = <<>>
    /\ returned = None
    /\ applications = 0

\* abort_call_site!, panic!, assert!: the invocation ends with an error.
Abort(kind, name, value) ==
    /\ pc' = "aborted"
    /\ error' = Some(Error(kind, name, value))

(***************************************************************************)
(* MacroArgs::parse, lines 104-110: the optional legacy level literal and  *)
(* the comma after it.                                                     *)
(***************************************************************************)
ParseLegacy(literal) ==
    /\ pc = "args"
    /\ legacy_output' = IF is_some(literal) THEN Some(trim_quotes(unwrap(literal))) ELSE None
    /\ pc' = "name_values"
    /\ UNCHANGED <<ok, err, ingress, egress, skip, debug, n_entries, macro_args, fn_item,
                   tokens, error, call_vars, applications>>

\* `skip.push(ident)` for every element of the array, in order.
RECURSIVE push_idents(_, _)
push_idents(vec, elems) ==
    IF elems = <<>> THEN vec
    ELSE push_idents(Append(vec, Head(elems).path[1]), Tail(elems))

\* A slip in lines 148-155: a name no arm knows falls into the `debug` arm.
match_name_without_default(name) ==
    IF name \in {"err", "ok", "ingress", "egress"} THEN name ELSE "debug"

\* MacroArgs::parse, lines 148-155: the arm of the match a name selects.
match_name(name) ==
    IF name \in {"err", "ok", "ingress", "egress", "debug"} THEN name ELSE "_"

(***************************************************************************)
(* MacroArgs::parse, lines 120-156: one turn of the loop over the entries. *)
(***************************************************************************)
ParseNameValue(name_value) ==
    /\ pc = "name_values"
    /\ n_entries < MaxEntries
    /\ n_entries' = n_entries + 1
    /\ UNCHANGED <<legacy_output, macro_args, fn_item, tokens, call_vars, applications>>
    /\ LET name_o == get_ident(name_value.path)
           value == name_value.value
       IN  IF is_none(name_o)
           THEN /\ Abort("name_not_ident", "", <<>>)
                /\ UNCHANGED <<ok, err, ingress, egress, skip, debug>>
           ELSE LET name == unwrap(name_o) IN
             IF name = "skip"
             THEN IF value.expr # "Array"
                  THEN /\ Abort("skip_not_array", "", <<>>)
                       /\ UNCHANGED <<ok, err, ingress, egress, skip, debug>>
                  ELSE IF \E i \in 1..Len(value.elems) : value.elems[i].expr # "Path"
                  THEN /\ Abort("skip_elem_not_ident", "", <<>>)
                       /\ UNCHANGED <<ok, err, ingress, egress, skip, debug>>
                  ELSE /\ skip' = Some(push_idents(IF is_some(skip) THEN unwrap(skip) ELSE <<>>,
                                                   value.elems))
                       /\ UNCHANGED <<pc, error, ok, err, ingress, egress, debug>>
             ELSE IF value.expr # "Lit"
             THEN /\ Abort("value_not_literal", "", <<>>)
                  /\ UNCHANGED <<ok, err, ingress, egress, skip, debug>>
             ELSE LET v == trim_quotes(value.lit)
                      arm == match_name(name)
                  IN
               CASE arm = "err" ->
                      /\ err' = Some(v)
                      /\ UNCHANGED <<pc, error, ok, ingress, egress, skip, debug>>
                 [] arm = "ok" ->
                      /\ ok' = Some(v)
                      /\ UNCHANGED <<pc, error, err, ingress, egress, skip, debug>>
                 [] arm = "ingress" ->
                      /\ ingress' = Some(v)
                      /\ UNCHANGED <<pc, error, ok, err, egress, skip, debug>>
                 [] arm = "egress" ->
                      /\ egress' = Some(v)
                      /\ UNCHANGED <<pc, error, ok, err, ingress, skip, debug>>
                 [] arm = "debug" ->
                      /\ debug' = Some(v)
                      /\ UNCHANGED <<pc, error, ok, err, ingress, egress, skip>>
                 [] OTHER ->
                      /\ Abort("unknown_name", name, v)
                      /\ UNCHANGED <<ok, err, ingress, egress, skip, debug>>

\* A slip in lines 161-165: `ingress` resets a skip-list that was written.
ingress_logging_rules_overwrites(ingress_, skip_) ==
    IF is_some(ingress_) THEN Some(<<>>) ELSE skip_

(***************************************************************************)
(* MacroArgs::parse, lines 161-165: ingress logging turns parameter        *)
(* logging on.                                                             *)
(***************************************************************************)
ingress_logging_rules(ingress_, skip_) ==
    IF is_some(ingress_) /\ is_none(skip_) THEN Some(<<>>) ELSE skip_

\* A slip in lines 167-186: `err` alone does not make an egress mode.
egress_logging_rules_forgets_err(egress_, legacy_output_, ok_, err_) ==
    IF is_some(egress_) THEN Some(Simple(unwrap(egress_)))
    ELSE IF is_some(legacy_output_) THEN Some(Simple(unwrap(legacy_output_)))
    ELSE IF is_none(ok_) THEN None
    ELSE Some(Result(ok_, err_))

\* A slip in lines 167-186: with nothing given, egress is logged at debug.
egress_logging_rules_defaults(egress_, legacy_output_, ok_, err_) ==
    IF is_some(egress_) THEN Some(Simple(unwrap(egress_)))
    ELSE IF is_some(legacy_output_) THEN Some(Simple(unwrap(legacy_output_)))
    ELSE IF is_none(ok_) /\ is_none(err_) THEN Some(Simple(s_debug))
    ELSE Some(Result(ok_, err_))

(***************************************************************************)
(* MacroArgs::parse, lines 167-186: the egress mode.                       *)
(***************************************************************************)
egress_logging_rules(egress_, legacy_output_, ok_, err_) ==
    IF is_some(egress_) THEN Some(Simple(unwrap(egress_)))
    ELSE IF is_some(legacy_output_) THEN Some(Simple(unwrap(legacy_output_)))
    ELSE IF is_none(ok_) /\ is_none(err_) THEN None
    ELSE Some(Result(ok_, err_))

(***************************************************************************)
(* MacroArgs::parse, lines 158-196: after the loop.                        *)
(***************************************************************************)
ParseFinish ==
    /\ pc = "name_values"
    /\ LET log_egress_args == egress_logging_rules(egress, legacy_output, ok, err) IN
       /\ skip' = ingress_logging_rules(ingress, skip)
       /\ IF is_some(ingress) \/ is_some(log_egress_args)
          THEN /\ macro_args' = Some([log_ingress_level |-> ingress,
                                      log_egress_args |-> log_egress_args,
                                      params |-> skip',
                                      debug |-> (debug = Some(s_true))])
               /\ pc' = "parsed"
               /\ UNCHANGED error
          ELSE /\ Abort("no_effect", "", <<>>)
               /\ UNCHANGED macro_args
    /\ UNCHANGED <<legacy_output, ok, err, ingress, egress, debug, n_entries, fn_item,
                   tokens, call_vars, applications>>

(***************************************************************************)
(* The rewritten body is a sequence of statements:                         *)
(*   let_clone        let __cloned_p = p.clone();                          *)
(*   log              ::log::LEVEL!(fmt, fn_name, args...)                 *)
(*   block            the block given to gen_egress_block, in tail place   *)
(*   let_ret_closure  let __ret_value = (move || BLOCK)();                 *)
(*   let_ret_await    let __ret_value = async move { BLOCK }.await;        *)
(*   match_ret        match &__ret_value { Ok(..) => .., Err(..) => .. }   *)
(*   ret_value        __ret_value, in tail place                           *)
(*   async_move       async move { inner }, followed by .await or not      *)
(* An identifier is a prefix and a name; the format string is a sequence   *)
(* of pieces, and a "{}" or "{:?}" piece stands for the next argument.     *)
(***************************************************************************)
Ident(prefix, name) == [prefix |-> prefix, name |-> name]

\* features.rs, line 6 (the `format-display` feature is off)
FORMAT_PLACEHOLDER == "{:?}"

LEVELS == {s_error, s_warn, s_info, s_debug, s_trace}

\* fn cloned_param_ident and fn param_ident: the prefix each puts before the name
cloned_param_ident == "__cloned_"
param_ident == ""

\* MacroArgs::gen_skip_params_list
gen_skip_params_list(macro_args_, fn_args) ==
    IF is_some(macro_args_.params) THEN unwrap(macro_args_.params) ELSE fn_args

\* fn build_wanted_params_list
build_wanted_params_list(param_idents, to_skip) ==
    SelectSeq(param_idents, LAMBDA param_name : ~contains(to_skip, param_name))

\* fn gen_ingress_clone_params (should_clone_params is always true)
gen_ingress_clone_params(macro_args_, fn_args) ==
    LET params_to_skip == gen_skip_params_list(macro_args_, fn_args)
        wanted_params == build_wanted_params_list(fn_args, params_to_skip)
    IN  [i \in 1..Len(wanted_params) |->
            [stmt |-> "let_clone",
             cloned |-> Ident(cloned_param_ident, wanted_params[i]),
             original |-> Ident(param_ident, wanted_params[i])]]

\* A slip in line 611: the separator is put before the first parameter too.
RECURSIVE format_placeholders_leading_separator(_, _, _)
format_placeholders_leading_separator(param_idents, to_skip, param_index) ==
    IF param_index > Len(param_idents) THEN <<>>
    ELSE LET param_name == param_idents[param_index]
             placeholder == IF contains(to_skip, param_name)
                            THEN "<skipped>" ELSE FORMAT_PLACEHOLDER
         IN  <<", ", param_name, ": ", placeholder>>
                 \o format_placeholders_leading_separator(param_idents, to_skip,
                                                          param_index + 1)

\* fn build_input_format_arguments: the placeholders of the format string
RECURSIVE format_placeholders(_, _, _)
format_placeholders(param_idents, to_skip, param_index) ==
    IF param_index > Len(param_idents) THEN <<>>
    ELSE LET param_name == param_idents[param_index]
             placeholder == IF contains(to_skip, param_name)
                            THEN "<skipped>" ELSE FORMAT_PLACEHOLDER
             placeholder_separator == IF param_index > 1 THEN <<", ">> ELSE <<>>
         IN  placeholder_separator \o <<param_name, ": ", placeholder>>
                 \o format_placeholders(param_idents, to_skip, param_index + 1)

\* A punctuation token.
Punct(ch) == [punct |-> ch]

\* Punctuated<Ident, Comma>: a comma between every two identifiers.
RECURSIVE punctuated(_)
punctuated(idents) ==
    IF Len(idents) <= 1 THEN idents
    ELSE <<Head(idents), Punct(",")>> \o punctuated(Tail(idents))

\* The arguments a macro call reads from a comma-separated token list.
call_args(token_list) == SelectSeq(token_list, LAMBDA t : "punct" \notin DOMAIN t)

\* fn build_input_format_arguments, lines 616-624: the values to render, each
\* followed by a comma
format_values(param_ident_builder, param_idents, to_skip) ==
    LET kept == SelectSeq(param_idents, LAMBDA param_name : ~contains(to_skip, param_name))
        values == punctuated([i \in 1..Len(kept) |-> Ident(param_ident_builder, kept[i])])
    IN  IF values # <<>> THEN Append(values, Punct(",")) ELSE values

\* fn build_input_format_arguments
build_input_format_arguments(param_ident_builder, param_idents, to_skip) ==
    [format_placeholders |-> format_placeholders(param_idents, to_skip, 1),
     format_values |-> format_values(param_ident_builder, param_idents, to_skip)]

\* A slip in lines 504-507 and 545-548: the level is lowercased, not checked.
check_level_unchecked(level) == [abort |-> None, level |-> to_lowercase(level)]

\* lines 504-507 and 545-548: the level, lowercased, must be a known one
check_level(level) ==
    LET lowered == to_lowercase(level)
    IN  IF lowered \notin LEVELS
        THEN [abort |-> Some(Error("unknown_log_level", "", lowered)), level |-> lowered]
        ELSE [abort |-> None, level |-> lowered]

\* fn gen_ingress_log
gen_ingress_log(level, fn_name, param_names, params_to_skip) ==
    LET checked == check_level(level)
        to_skip == IF is_some(params_to_skip) THEN unwrap(params_to_skip) ELSE param_names
        input == build_input_format_arguments(param_ident, param_names, to_skip)
        fmt == <<"<= ", "{}", "(">> \o input.format_placeholders \o <<"):">>
    IN  [abort |-> checked.abort,
         tokens |-> [stmt |-> "log", level |-> checked.level, fmt |-> fmt,
                     fn_name |-> fn_name, args |-> call_args(input.format_values)]]

\* A slip in line 556: the egress log reads the parameters, not their clones.
gen_egress_log_reads_params(level, fn_name, param_names, params_to_skip, return_value_name, return_value_prefix, return_value_suffix) ==
    LET checked == check_level(level)
        return_value_ident == Ident("", return_value_name)
        to_skip == IF is_some(params_to_skip) THEN unwrap(params_to_skip) ELSE param_names
        input == build_input_format_arguments(param_ident, param_names, to_skip)
        fmt == <<"{}", "(">> \o input.format_placeholders \o <<") => ">>
                   \o return_value_prefix \o <<FORMAT_PLACEHOLDER>> \o return_value_suffix
    IN  [abort |-> checked.abort,
         tokens |-> [stmt |-> "log", level |-> checked.level, fmt |-> fmt,
                     fn_name |-> fn_name,
                     args |-> call_args(Append(input.format_values, return_value_ident))]]

\* fn gen_egress_log
gen_egress_log(level, fn_name, param_names, params_to_skip, return_value_name, return_value_prefix, return_value_suffix) ==
    LET checked == check_level(level)
        return_value_ident == Ident("", return_value_name)
        to_skip == IF is_some(params_to_skip) THEN unwrap(params_to_skip) ELSE param_names
        input == build_input_format_arguments(cloned_param_ident, param_names, to_skip)
        fmt == <<"{}", "(">> \o input.format_placeholders \o <<") => ">>
                   \o return_value_prefix \o <<FORMAT_PLACEHOLDER>> \o return_value_suffix
    IN  [abort |-> checked.abort,
         tokens |-> [stmt |-> "log", level |-> checked.level, fmt |-> fmt,
                     fn_name |-> fn_name,
                     args |-> call_args(Append(input.format_values, return_value_ident))]]

\* A slip in lines 395-434: the arm never logs.
gen_arm_silent(arm_level, fn_name, fn_args, macro_args_, variant) ==
    [abort |-> None, tokens |-> None]

\* fn gen_egress_block, lines 395-434: one arm of the match on the result
gen_arm(arm_level, fn_name, fn_args, macro_args_, variant) ==
    IF is_some(arm_level)
    THEN LET log == gen_egress_log(unwrap(arm_level), fn_name, fn_args, macro_args_.params,
                                   IF variant = "Ok" THEN "__ok_value" ELSE "__err_value",
                                   IF variant = "Ok" THEN <<"Ok(">> ELSE <<"Err(">>,
                                   <<")">>)
         IN  [abort |-> log.abort, tokens |-> Some(log.tokens)]
    ELSE [abort |-> None, tokens |-> None]

\* A slip in lines 347-389 and 438-468: the value is not handed on.
egress_template_drops_value(block, inner, async_context, async_keyword) ==
    IF async_context
    THEN <<[stmt |-> "async_move",
            inner |-> <<[stmt |-> "let_ret_await", block |-> block]>> \o inner,
            await |-> async_keyword]>>
    ELSE <<[stmt |-> "let_ret_closure", block |-> block]>> \o inner

\* A slip in lines 347-389 and 438-468: the log is issued twice.
egress_template_twice(block, inner, async_context, async_keyword) ==
    IF async_context
    THEN <<[stmt |-> "async_move",
            inner |-> <<[stmt |-> "let_ret_await", block |-> block]>> \o inner \o inner
                          \o <<[stmt |-> "ret_value"]>>,
            await |-> async_keyword]>>
    ELSE <<[stmt |-> "let_ret_closure", block |-> block]>> \o inner \o inner
             \o <<[stmt |-> "ret_value"]>>

\* fn gen_egress_block, lines 347-389 and 438-468: the body around `inner`
egress_template(block, inner, async_context, async_keyword) ==
    IF async_context
    THEN <<[stmt |-> "async_move",
            inner |-> <<[stmt |-> "let_ret_await", block |-> block]>> \o inner
                          \o <<[stmt |-> "ret_value"]>>,
            await |-> async_keyword]>>
    ELSE <<[stmt |-> "let_ret_closure", block |-> block]>> \o inner
             \o <<[stmt |-> "ret_value"]>>

\* fn gen_egress_block
gen_egress_block(block, async_context, async_keyword, fn_name, fn_args, macro_args_) ==
    IF is_none(macro_args_.log_egress_args)
    THEN [abort |-> None, tokens |-> <<[stmt |-> "block", block |-> block]>>]
    ELSE LET log_egress_args == unwrap(macro_args_.log_egress_args) IN
      IF log_egress_args.variant = "Simple"
      THEN LET log == gen_egress_log(log_egress_args.level, fn_name, fn_args,
                                     macro_args_.params, "__ret_value", <<>>, <<>>)
           IN  [abort |-> log.abort,
                tokens |-> egress_template(block, <<log.tokens>>, async_context,
                                           async_keyword)]
      ELSE LET ok_arm == gen_arm(log_egress_args.ok_level, fn_name, fn_args, macro_args_, "Ok")
               err_arm == gen_arm(log_egress_args.err_level, fn_name, fn_args, macro_args_,
                                  "Err")
           IN  [abort |-> IF is_some(ok_arm.abort) THEN ok_arm.abort ELSE err_arm.abort,
                tokens |-> egress_template(block,
                                           <<[stmt |-> "match_ret", ok_arm |-> ok_arm.tokens,
                                              err_arm |-> err_arm.tokens]>>,
                                           async_context, async_keyword)]

\* A slip in gen_ingress_block: the log is placed after the block.
gen_ingress_block_log_last(block, fn_name, fn_args, macro_args_) ==
    LET collect_and_serialize == gen_ingress_clone_params(macro_args_, fn_args)
        log == IF is_some(macro_args_.log_ingress_level)
               THEN gen_ingress_log(unwrap(macro_args_.log_ingress_level), fn_name, fn_args,
                                    macro_args_.params)
               ELSE [abort |-> None, tokens |-> None]
    IN  [abort |-> log.abort,
         tokens |-> collect_and_serialize
                        \o block
                        \o (IF is_some(macro_args_.log_ingress_level)
                            THEN <<log.tokens>> ELSE <<>>)]

\* fn gen_ingress_block
gen_ingress_block(block, fn_name, fn_args, macro_args_) ==
    LET collect_and_serialize == gen_ingress_clone_params(macro_args_, fn_args)
        log == IF is_some(macro_args_.log_ingress_level)
               THEN gen_ingress_log(unwrap(macro_args_.log_ingress_level), fn_name, fn_args,
                                    macro_args_.params)
               ELSE [abort |-> None, tokens |-> None]
    IN  [abort |-> log.abort,
         tokens |-> collect_and_serialize
                        \o (IF is_some(macro_args_.log_ingress_level)
                            THEN <<log.tokens>> ELSE <<>>)
                        \o block]

(***************************************************************************)
(* fn get_async_trait_info and fn path_to_string: the pattern detector.    *)
(***************************************************************************)
\* fn path_to_string: the segments' identifiers joined by "::"
RECURSIVE path_to_string(_)
path_to_string(path) ==
    IF path = <<>> THEN <<>>
    ELSE IF Len(path) = 1 THEN path[1]
    ELSE path[1] \o <<":", ":">> \o path_to_string(Tail(path))

\* str::ends_with
ends_with(str, suffix) ==
    /\ Len(str) >= Len(suffix)
    /\ SubSeq(str, Len(str) - Len(suffix) + 1, Len(str)) = suffix

AsyncTraitInfo(source_stmt, kind, async_expr) ==
    [source_stmt |-> source_stmt, kind |-> kind, async_expr |-> async_expr]

\* lines 722-730: the suspending functions declared inside the block
inside_funs(block) ==
    SelectSeq(block.stmts, LAMBDA stmt : stmt.stmt = "Item" /\ stmt.asyncness)

\* lines 736-742: the last expression statement of the block, searched from
\* the end of the block backwards
RECURSIVE last_expr_stmt(_, _)
last_expr_stmt(stmts, i) ==
    IF i = 0 THEN None
    ELSE IF stmts[i].stmt = "Expr" THEN Some(stmts[i])
    ELSE last_expr_stmt(stmts, i - 1)

\* A slip in lines 778-799: the old construction is not looked for.
legacy_info_not_found(block, outside_args) == None

\* lines 778-799: Box::pin(inner()), with a suspending `inner` of the block
legacy_info(block, outside_args) ==
    IF outside_args[1].expr # "Call" THEN None
    ELSE LET func == outside_args[1].func IN
      IF func.expr # "Path" THEN None
      ELSE LET func_name == path_to_string(func.path)
               found == SelectSeq(inside_funs(block), LAMBDA fun : fun.ident = func_name)
           IN  IF found = <<>> THEN None
               ELSE Some(AsyncTraitInfo(found[1], "Function", None))

\* fn get_async_trait_info
get_async_trait_info(block, block_is_async) ==
    IF block_is_async THEN None
    ELSE LET last == last_expr_stmt(block.stmts, Len(block.stmts)) IN
      IF is_none(last) THEN None
      ELSE LET last_expr == unwrap(last).expr IN
        IF last_expr.expr # "Call" THEN None
        ELSE LET outside_func == last_expr.func
                 outside_args == last_expr.args
             IN
          IF outside_func.expr # "Path" THEN None
          ELSE IF ~ends_with(path_to_string(outside_func.path), s_Box_pin) THEN None
          ELSE IF outside_args = <<>> THEN None
          ELSE IF outside_args[1].expr = "Async"
          THEN (IF ~outside_args[1].capture THEN None
                ELSE Some(AsyncTraitInfo(unwrap(last), "Async", Some(outside_args[1]))))
          ELSE legacy_info(block, outside_args)

\* fn logcall, lines 210-225: the parameters' identifiers
fn_args_of(inputs) == [i \in 1..Len(inputs) |-> inputs[i].ident]

unknown_parameter(inputs) ==
    \E i \in 1..Len(inputs) : inputs[i].arg = "Typed" /\ inputs[i].pat # "Ident"

\* fn logcall, lines 229-277: the new body of the function
func_body(item, macro_args_) ==
    LET fn_name == item.ident
        fn_args == fn_args_of(item.inputs)
        internal_fun == get_async_trait_info(item.block, item.asyncness)
    IN
      IF is_some(internal_fun) /\ unwrap(internal_fun).kind = "Function"
      THEN [abort |-> Some(Error("unimplemented", "", <<>>)), tokens |-> <<>>]
      ELSE IF is_some(internal_fun)
      THEN LET async_expr == unwrap(unwrap(internal_fun).async_expr)
               egress_block == gen_egress_block(async_expr.block, TRUE, FALSE,
                                                fn_name, fn_args, macro_args_)
               instrumented_block == gen_ingress_block(egress_block.tokens, fn_name,
                                                       fn_args, macro_args_)
           IN  [abort |-> IF is_some(egress_block.abort) THEN egress_block.abort
                          ELSE instrumented_block.abort,
                tokens |-> <<[stmt |-> "box_pin", attrs |-> async_expr.attrs,
                              inner |-> instrumented_block.tokens]>>]
      ELSE LET egress_block == gen_egress_block(item.block, item.asyncness, item.asyncness,
                                                fn_name, fn_args, macro_args_)
               ingress_block == gen_ingress_block(egress_block.tokens, fn_name, fn_args,
                                                  macro_args_)
           IN  [abort |-> IF is_some(egress_block.abort) THEN egress_block.abort
                          ELSE ingress_block.abort,
                tokens |-> ingress_block.tokens]

\* The tokens of an optional qualifier.
opt_tokens(o) == IF is_some(o) THEN <<unwrap(o)>> ELSE <<>>
flag_tokens(flag, keyword) == IF flag THEN <<keyword>> ELSE <<>>

\* The declaration as the user wrote it: syn's ItemFn parser takes the
\* qualifiers in the one order the language has, const async unsafe extern.
\* (The angle brackets around the generic parameters are left out.)
declaration(item) ==
    item.attrs \o opt_tokens(item.vis)
        \o flag_tokens(item.constness, "const") \o flag_tokens(item.asyncness, "async")
        \o flag_tokens(item.unsafety, "unsafe") \o opt_tokens(item.abi)
        \o <<"fn", item.ident>> \o item.gen_params
        \o <<item.inputs, [output |-> item.output, future |-> item.future]>>
        \o opt_tokens(item.where_clause)

\* fn logcall, lines 279-307: the declaration the macro emits around the body
emitted_declaration(item) ==
    item.attrs \o opt_tokens(item.vis)
        \o flag_tokens(item.constness, "const") \o flag_tokens(item.unsafety, "unsafe")
        \o flag_tokens(item.asyncness, "async") \o opt_tokens(item.abi)
        \o <<"fn", item.ident>> \o item.gen_params
        \o <<item.inputs, [output |-> item.output, future |-> item.future]>>
        \o opt_tokens(item.where_clause)

\* MacroArgs::parse has returned: its locals no longer exist.
ParseReturned ==
    /\ legacy_output' = None
    /\ ok' = None /\ err' = None /\ ingress' = None /\ egress' = None
    /\ skip' = None /\ debug' = None
    /\ n_entries' = 0

\* fn logcall, lines 209-311: the function is rewritten, or the invocation aborts.
rewrite(item) ==
    IF unknown_parameter(item.inputs)
    THEN /\ Abort("unknown_parameter", "", <<>>)
         /\ UNCHANGED tokens
    ELSE LET body == func_body(item, unwrap(macro_args)) IN
      IF is_some(body.abort)
      THEN /\ pc' = "aborted"
           /\ error' = body.abort
           /\ UNCHANGED tokens
      ELSE IF unwrap(macro_args).debug
      THEN /\ Abort("debug_dump", "", <<>>)
           /\ UNCHANGED tokens
      ELSE /\ tokens' = Some([ident |-> item.ident, asyncness |-> item.asyncness,
                              inputs |-> item.inputs, output |-> item.output,
                              future |-> item.future,
                              attrs |-> item.attrs, vis |-> item.vis,
                              constness |-> item.constness, unsafety |-> item.unsafety,
                              abi |-> item.abi, gen_params |-> item.gen_params,
                              where_clause |-> item.where_clause,
                              decl |-> emitted_declaration(item),
                              body |-> body.tokens])
           /\ pc' = "expanded"
           /\ UNCHANGED error

(***************************************************************************)
(* The directive is stacked: the function the macro emitted carries the    *)
(* same directive once more, and the macro is handed its own output, which *)
(* syn parses again (line 206).                                            *)
(***************************************************************************)
RECURSIVE parse_stmt(_)

\* What syn makes of a statement of a rewritten body.
parse_stmt(s) ==
    CASE s.stmt \in {"let_clone", "let_ret_closure", "let_ret_await"} -> StmtLocal
      [] s.stmt = "log" -> StmtMacro
      [] s.stmt = "block" -> StmtExpr(ExprBlock(s.block), FALSE)
      [] s.stmt = "async_move" ->
           StmtExpr(IF s.await THEN ExprOther
                    ELSE ExprAsync(<<>>, TRUE,
                                   [stmts |-> [i \in 1..Len(s.inner) |-> parse_stmt(s.inner[i])],
                                    code |-> s.inner]), FALSE)
      [] s.stmt = "box_pin" ->
           StmtExpr(ExprCall(BoxPin,
                             <<ExprBlock([stmts |-> [i \in 1..Len(s.inner) |->
                                                       parse_stmt(s.inner[i])],
                                          code |-> s.inner])>>), FALSE)
      [] OTHER -> StmtExpr(ExprOther, FALSE)

\* The block syn makes of a rewritten body; `code` keeps what running it does.
parse_block(body) ==
    [stmts |-> [i \in 1..Len(body) |-> parse_stmt(body[i])], code |-> body]

\* syn's Signature parser takes `async` before `unsafe` only.
parses_as_item_fn(tok) == ~(tok.unsafety /\ tok.asyncness)

\* The function syn makes of a rewritten one; the directive now applied is
\* no longer among its attributes.
parse_item_fn(tok) ==
    [ident |-> tok.ident, asyncness |-> tok.asyncness, inputs |-> tok.inputs,
     output |-> tok.output, block |-> parse_block(tok.body), future |-> tok.future,
     attrs |-> Tail(tok.attrs), vis |-> tok.vis, constness |-> tok.constness,
     unsafety |-> tok.unsafety, abi |-> tok.abi, gen_params |-> tok.gen_params,
     where_clause |-> tok.where_clause]

\* The function the macro emitted carries the directive once more.
Stacked ==
    /\ pc = "expanded"
    /\ applications < MaxApplications
    /\ unwrap(tokens).attrs # <<>> /\ Head(unwrap(tokens).attrs) = LogcallAttr

\* Line 206: the functions syn may read from fn_tokens.  At the first
\* application the function is an input of its own: nothing the directive's
\* parser does depends on it.  At a stacked one it is the macro's own output.
fn_tokens ==
    IF pc = "parsed" THEN ItemFns
    ELSE IF Stacked /\ parses_as_item_fn(unwrap(tokens))
    THEN {parse_item_fn(unwrap(tokens))}
    ELSE {}

(***************************************************************************)
(* fn logcall: the function is read and rewritten, or the invocation       *)
(* aborts.                                                                 *)
(***************************************************************************)
Expand(item) ==
    /\ pc \in {"parsed", "expanded"}
    /\ fn_item' = Some(item)
    /\ applications' = applications + 1
    /\ ParseReturned
    /\ UNCHANGED <<macro_args, call_vars>>
    /\ rewrite(item)

\* Line 206 at a stacked application: syn does not read a function from the
\* macro's own output.
Reexpand ==
    /\ Stacked
    /\ ~parses_as_item_fn(unwrap(tokens))
    /\ applications' = applications + 1
    /\ Abort("syntax_error", "", <<>>)
    /\ UNCHANGED <<legacy_output, ok, err, ingress, egress, skip, debug, n_entries,
                   macro_args, fn_item, tokens, call_vars>>

(***************************************************************************)
(* The rewritten function at run time.  A value is a tag ("" for a plain   *)
(* value, "Ok" or "Err" for a Result, "future" for a future not yet        *)
(* awaited) and a payload; the user's code is opaque: when it runs it      *)
(* yields the value `effect.ret`, and, if `effect.mutates`, it has changed *)
(* or consumed its parameters by then.                                     *)
(***************************************************************************)
Value(tag, val) == [tag |-> tag, val |-> val]

Future == Value("future", "")

ParamValues == <<"1", "2", "3", "4">>
RetValues == {"7", "8"}

\* What the user's code may do, by the function's return type.
Effects(item) ==
    IF item.output = "result"
    THEN {[ret |-> Value(tag, v), mutates |-> m] :
            tag \in {"Ok", "Err"}, v \in RetValues, m \in BOOLEAN}
    ELSE {[ret |-> Value("", v), mutates |-> m] : v \in RetValues, m \in BOOLEAN}

\* The {:?} rendering of a value.
Debug(v) == IF v.tag = "" THEN <<v.val>>
            ELSE IF v.tag = "Ok" THEN <<"Ok(", v.val, ")">>
            ELSE <<"Err(", v.val, ")">>

\* An event of a call: a log record (its level and its rendered message), or
\* the start or the end of the user's code (the end with the code's value).
Event(ev, level, msg, value) == [ev |-> ev, level |-> level, msg |-> msg, value |-> value]

\* format!: every placeholder piece is replaced by the next argument.
RECURSIVE render(_, _)
render(fmt, args) ==
    IF fmt = <<>> THEN <<>>
    ELSE IF Head(fmt) \in {"{}", "{:?}"}
    THEN Head(args) \o render(Tail(fmt), Tail(args))
    ELSE <<Head(fmt)>> \o render(Tail(fmt), args)

\* The value an identifier of the rewritten body is bound to.
lookup(ident, st) ==
    IF ident.prefix = cloned_param_ident THEN st.cloned[ident.name]
    ELSE IF ident.name = "__ret_value" THEN unwrap(st.ret)
    ELSE IF ident.name \in {"__ok_value", "__err_value"} THEN Value("", unwrap(st.ret).val)
    ELSE st.vals[ident.name]

\* ::log::LEVEL!(fmt, fn_name, args...)
log_event(log, st) ==
    Event("log", log.level,
          render(log.fmt, <<<<log.fn_name>>>>
                              \o [i \in 1..Len(log.args) |-> Debug(lookup(log.args[i], st))]),
          None)

\* The user's code runs to its end.
run_user(st, effect) ==
    [st EXCEPT !.trace = Append(Append(@, Event("body_start", <<>>, <<>>, None)),
                                Event("body_end", <<>>, <<>>, Some(effect.ret))),
               !.vals = IF effect.mutates THEN [n \in DOMAIN @ |-> Value("", "gone")]
                        ELSE @,
               !.result = Some(effect.ret)]

RECURSIVE exec(_, _, _)

\* A block runs: a block the macro emitted has run its statements, with
\* bindings of its own, and ended in `inner`; a block of the user that makes a pinned future makes it, and
\* the user's code runs when that future is polled.
run_block(block, st, effect, inner) ==
    IF "code" \in DOMAIN block
    THEN [st EXCEPT !.trace = inner.trace, !.vals = inner.vals, !.result = inner.result]
    ELSE IF is_pinned_future(block) /\ ~st.polled
    THEN [st EXCEPT !.result = Some(Future)]
    ELSE run_user(st, effect)

\* The statements of the rewritten body, one after the other.
exec(stmts, st, effect) ==
    IF stmts = <<>> THEN st
    ELSE LET s == Head(stmts)
             rest == Tail(stmts)
             inner == IF "block" \in DOMAIN s /\ "code" \in DOMAIN s.block
                      THEN exec(s.block.code, [st EXCEPT !.ret = None, !.result = None],
                                effect)
                      ELSE st
         IN
      CASE s.stmt = "let_clone" ->
             exec(rest,
                  [st EXCEPT !.cloned = (s.cloned.name :> st.vals[s.original.name]) @@ @],
                  effect)
        [] s.stmt = "log" ->
             exec(rest, [st EXCEPT !.trace = Append(@, log_event(s, st))], effect)
        [] s.stmt = "block" ->
             exec(rest, run_block(s.block, st, effect, inner), effect)
        [] s.stmt \in {"let_ret_closure", "let_ret_await"} ->
             LET ran == run_block(s.block, st, effect, inner)
             IN  exec(rest, [ran EXCEPT !.ret = ran.result, !.result = None], effect)
        [] s.stmt = "match_ret" ->
             LET arm == IF unwrap(st.ret).tag = "Ok" THEN s.ok_arm ELSE s.err_arm
             IN  exec(rest,
                      IF is_some(arm)
                      THEN [st EXCEPT !.trace = Append(@, log_event(unwrap(arm), st))]
                      ELSE st,
                      effect)
        [] s.stmt = "ret_value" ->
             exec(rest, [st EXCEPT !.result = st.ret], effect)
        [] s.stmt = "async_move" ->
             IF s.await \/ st.polled
             THEN exec(s.inner \o rest, st, effect)
             ELSE [st EXCEPT !.result = Some(Future)]
        [] s.stmt = "box_pin" ->
             exec(s.inner \o rest, st, effect)

\* The state a call starts in; `polled` says that the future is being awaited.
entry_state(vals, polled) ==
    [vals |-> vals, cloned |-> <<>>, ret |-> None, result |-> None, trace |-> <<>>,
     polled |-> polled]

RECURSIVE value_kind(_)
\* The type of a body's value, as far as it matters: "future", "value", or
\* "pinned" for a pinned thing that is no future.
value_kind(stmts) ==
    IF stmts = <<>> THEN "value"
    ELSE LET s == stmts[Len(stmts)] IN
      CASE s.stmt = "async_move" -> IF s.await THEN value_kind(s.inner) ELSE "future"
        [] s.stmt = "box_pin" -> IF value_kind(s.inner) = "future" THEN "future" ELSE "pinned"
        [] s.stmt = "block" ->
             IF "code" \in DOMAIN s.block THEN value_kind(s.block.code)
             ELSE IF is_pinned_future(s.block) THEN "future" ELSE "value"
        [] s.stmt = "ret_value" ->
             LET lets == SelectSeq(stmts, LAMBDA t : t.stmt \in {"let_ret_closure",
                                                                 "let_ret_await"})
             IN  IF "code" \in DOMAIN lets[1].block THEN value_kind(lets[1].block.code)
                 ELSE IF is_pinned_future(lets[1].block) THEN "future" ELSE "value"
        [] OTHER -> "value"

RECURSIVE well_typed(_)
\* rustc accepts the body: a value that is logged with {:?} or matched on is
\* no future, and Box::pin is given a future.
well_typed(stmts) ==
    \A i \in 1..Len(stmts) :
        LET s == stmts[i] IN
        CASE s.stmt \in {"let_ret_closure", "let_ret_await"} ->
               IF "code" \in DOMAIN s.block
               THEN well_typed(s.block.code) /\ value_kind(s.block.code) = "value"
               ELSE ~is_pinned_future(s.block)
          [] s.stmt = "block" ->
               ("code" \in DOMAIN s.block) => well_typed(s.block.code)
          [] s.stmt = "async_move" -> well_typed(s.inner)
          [] s.stmt = "box_pin" -> well_typed(s.inner) /\ value_kind(s.inner) = "future"
          [] OTHER -> TRUE

\* rustc accepts the rewritten function: a match on Ok/Err only for a function
\* that yields a Result, and a body of the declared return type.
type_checks(item, macro_args_) ==
    /\ (is_some(macro_args_.log_egress_args)
           /\ unwrap(macro_args_.log_egress_args).variant = "Result")
       => item.output = "result"
    /\ well_typed(item.body)
    /\ value_kind(item.body) = IF item.future THEN "future" ELSE "value"

ArgValues(item) ==
    {[name \in {item.inputs[i].ident : i \in 1..Len(item.inputs)} |->
         ParamValues[CHOOSE i \in 1..Len(item.inputs) : item.inputs[i].ident = name]]}

run(vals, effect, polled) ==
    LET final == exec(unwrap(tokens).body,
                      entry_state([n \in DOMAIN vals |-> Value("", vals[n])], polled),
                      effect)
    IN  /\ trace' = final.trace
        /\ params_out' = Some(final.vals)
        /\ IF final.result = Some(Future)
           THEN pc' = "pending" /\ returned' = None
           ELSE pc' = "returned" /\ returned' = final.result

(***************************************************************************)
(* The rewritten function is called.  A synchronous function runs to its   *)
(* end, which may be a future it hands back; a suspending one hands back a *)
(* future and runs nothing yet.                                            *)
(***************************************************************************)
Call(vals, effect) ==
    /\ pc = "expanded"
    /\ type_checks(unwrap(tokens), unwrap(macro_args))
    /\ params_in' = Some(vals)
    /\ IF unwrap(tokens).asyncness
       THEN /\ pc' = "pending"
            /\ UNCHANGED <<params_out, trace, returned>>
       ELSE run(vals, effect, FALSE)
    /\ UNCHANGED <<legacy_output, ok, err, ingress, egress, skip, debug, n_entries,
                   macro_args, fn_item, tokens, error, applications>>

(***************************************************************************)
(* The future the call handed back is awaited: what it holds runs.         *)
(***************************************************************************)
Await(effect) ==
    /\ pc = "pending"
    /\ run(unwrap(params_in), effect, TRUE)
    /\ UNCHANGED <<legacy_output, ok, err, ingress, egress, skip, debug, n_entries,
                   macro_args, fn_item, tokens, error, params_in, applications>>

Next ==
    \/ \E literal \in {None} \cup {Some(t) : t \in LitTokens} : ParseLegacy(literal)
    \/ \E name_value \in NameValues : ParseNameValue(name_value)
    \/ ParseFinish
    \/ /\ pc \in {"parsed", "expanded"}
       /\ \E item \in fn_tokens : Expand(item)
    \/ Reexpand
    \/ /\ pc = "expanded"
       /\ \E vals \in ArgValues(unwrap(tokens)), effect \in Effects(unwrap(tokens)) :
              Call(vals, effect)
    \/ /\ pc = "pending"
       /\ \E effect \in Effects(unwrap(tokens)) : Await(effect)

Spec == Init /\ [][Next]_vars

(***************************************************************************)
(* Properties of the directive parser.                                     *)
(***************************************************************************)
\* MacroArgs::parse has ended (with a MacroArgs or with an error) and its
\* locals are still there to look at.
ParseEnded == pc \in {"parsed", "aborted"} /\ is_none(fn_item)

ErrorKind == IF is_some(error) THEN unwrap(error).kind ELSE ""

\* C1: a directive that holds both the leading bare literal and an `egress=`
\* entry is rejected: the parser never returns a MacroArgs for it.
C1_LegacyAndEgressRejected ==
    ~(pc = "parsed" /\ is_some(legacy_output) /\ is_some(egress))

\* C2: a directive that holds the leading bare literal together with `ok=`
\* or `err=` is rejected: the parser never returns a MacroArgs for it (and so
\* never a Simple mode that drops the ok/err levels).
C2_LegacyAndOkErrRejected ==
    ~(pc = "parsed" /\ is_some(legacy_output) /\ (is_some(ok) \/ is_some(err)))

\* C3: for a directive free of the conflicts of C1 and C2 that the parser
\* accepts, the egress mode is Result(ok, err) if `ok` or `err` is present
\* (also when `egress=` is), otherwise Simple with the level of `egress=` or
\* of the bare literal if one is present, otherwise none.
C3_EgressModeResolution ==
    (/\ pc = "parsed"
     /\ ~(is_some(legacy_output) /\ is_some(egress))
     /\ ~(is_some(legacy_output) /\ (is_some(ok) \/ is_some(err))))
    => unwrap(macro_args).log_egress_args =
         IF is_some(ok) \/ is_some(err) THEN Some(Result(ok, err))
         ELSE IF is_some(egress) THEN Some(Simple(unwrap(egress)))
         ELSE IF is_some(legacy_output) THEN Some(Simple(unwrap(legacy_output)))
         ELSE None

\* One of ingress, egress, the bare literal, ok, err was supplied.
SomeLevelSupplied ==
    is_some(ingress) \/ is_some(egress) \/ is_some(legacy_output) \/ is_some(ok)
        \/ is_some(err)

C5_SkipListDefault ==
    [][(pc = "name_values" /\ pc' = "parsed") =>
          LET params == unwrap(macro_args').params IN
          /\ (is_some(ingress) /\ is_none(skip) => params = Some(<<>>))
          /\ (is_some(skip) => params = skip)
          /\ (is_none(ingress) /\ is_none(skip) => params = None)]_vars

\* C5's case: `ingress` was the only entry and the skip-list is Some(empty).
C5_Witness ==
    /\ pc = "parsed" /\ n_entries = 1 /\ is_some(ingress)
    /\ unwrap(macro_args).params = Some(<<>>)

\* The entry's name is an identifier other than the six the parser knows.
UnknownName(name_value) ==
    /\ is_some(get_ident(name_value.path))
    /\ unwrap(get_ident(name_value.path))
           \notin {"ingress", "egress", "ok", "err", "skip", "debug"}

\* C6, as claimed: an entry with an unknown name makes the parse fail with
\* the unknown-argument error that names it, whatever the shape of its value.
C6_UnknownNameAlwaysNamed ==
    [][\A name_value \in NameValues :
          (ParseNameValue(name_value) /\ UnknownName(name_value)) =>
              /\ pc' = "aborted"
              /\ unwrap(error').kind = "unknown_name"
              /\ unwrap(error').name = unwrap(get_ident(name_value.path))]_vars

\* C6, amended: an entry with an unknown name makes the parse fail; the error
\* is the unknown-argument error naming the identifier (and giving the value,
\* trimmed of its quotes) when the value is a literal, and the error about a
\* value that is no literal, which names nothing, when the value is an array
\* or a path.
C6_UnknownNameRejected ==
    [][\A name_value \in NameValues :
          (ParseNameValue(name_value) /\ UnknownName(name_value)) =>
              /\ pc' = "aborted"
              /\ error' = IF name_value.value.expr = "Lit"
                          THEN Some(Error("unknown_name",
                                          unwrap(get_ident(name_value.path)),
                                          trim_quotes(name_value.value.lit)))
                          ELSE Some(Error("value_not_literal", "", <<>>))]_vars

\* C6's case: the parse ended on the unknown name `bogus` given a string.
C6_Witness ==
    /\ ParseEnded
    /\ error = Some(Error("unknown_name", "bogus", s_info))

(***************************************************************************)
(* Properties of the code synthesizer and of the rewritten function.       *)
(***************************************************************************)
\* The macro has gone past the parser: the function was read.
Expanding == is_some(fn_item)

\* The rewritten function exists.
Emitted == pc \in {"expanded", "pending", "returned"}

\* The level values the parsed directive keeps.
KeptLevels(m) ==
    {unwrap(o) : o \in {o \in {m.log_ingress_level} : is_some(o)}}
        \cup (IF is_none(m.log_egress_args) THEN {}
              ELSE LET e == unwrap(m.log_egress_args) IN
                   IF e.variant = "Simple" THEN {e.level}
                   ELSE {unwrap(o) : o \in {o \in {e.ok_level, e.err_level} : is_some(o)}})

\* The log statements of a rewritten body.
RECURSIVE logs_of(_)
logs_of(stmts) ==
    IF stmts = <<>> THEN {}
    ELSE LET s == Head(stmts) IN
         (CASE s.stmt = "log" -> {s}
            [] s.stmt = "match_ret" ->
                 {unwrap(o) : o \in {o \in {s.ok_arm, s.err_arm} : is_some(o)}}
            [] s.stmt \in {"async_move", "box_pin"} -> logs_of(s.inner)
            [] OTHER -> {})
             \cup logs_of(Tail(stmts))

\* C7, as claimed, for the levels the parsed directive keeps: a function is
\* emitted only if each of them is exactly one of trace, debug, info, warn,
\* error.
C7_OnlyExactLevelsAccepted ==
    Emitted => \A level \in KeptLevels(unwrap(macro_args)) : level \in LEVELS

\* The function is rejected before any level is looked at: a parameter is no
\* simple binding, or the block has the old wrapper construction.
RejectedFirst ==
    \/ unknown_parameter(unwrap(fn_item).inputs)
    \/ LET info == get_async_trait_info(unwrap(fn_item).block, unwrap(fn_item).asyncness)
       IN  is_some(info) /\ unwrap(info).kind = "Function"

\* C7, amended: the levels the parsed directive keeps (ingress, the Simple
\* level, the ok and err levels of a Result mode) are lowercased and then
\* checked.  If one of them, lowercased, is none of the five, the
\* transformation fails with "unknown log level" naming such a level (or, the
\* function being looked at first, with the error about a parameter that is
\* no simple binding or about the old wrapper construction); it fails so for
\* no other reason; and every log statement
\* of an emitted function, and every log event of a call, has one of the five
\* levels, the lowercased spelling of a level of the directive.
C7_LevelsLowercasedAndChecked ==
    Expanding =>
        LET kept == KeptLevels(unwrap(macro_args))
            bad == {level \in kept : to_lowercase(level) \notin LEVELS}
        IN  /\ (bad # {} =>
                   /\ pc = "aborted"
                   /\ ErrorKind \in {"unknown_log_level", "unknown_parameter", "unimplemented"}
                   /\ (~RejectedFirst =>
                          /\ ErrorKind = "unknown_log_level"
                          /\ unwrap(error).value \in {to_lowercase(level) : level \in bad}))
            /\ (ErrorKind = "unknown_log_level" => bad # {})
            /\ (Emitted =>
                   \A log \in logs_of(unwrap(tokens).body) :
                       /\ log.level \in LEVELS
                       /\ log.level \in {to_lowercase(level) : level \in kept})
            /\ \A i \in 1..Len(trace) : trace[i].ev = "log" => trace[i].level \in LEVELS

\* C7's case: a function was emitted for a directive whose ingress level is
\* written WARN, and its ingress log statement has the level warn; it has run.
C7_Witness ==
    /\ pc = "returned"
    /\ unwrap(macro_args).log_ingress_level = Some(s_WARN)
    /\ trace # <<>> /\ trace[1].ev = "log" /\ trace[1].level = s_warn

\* The parameters as a log message shows them: name, ": ", and the value the
\* parameter had at entry or the marker `<skipped>`, joined by ", ".
RECURSIVE ExpectedParams(_, _, _, _)
ExpectedParams(names, skipped, vals, i) ==
    IF i > Len(names) THEN <<>>
    ELSE (IF i > 1 THEN <<", ">> ELSE <<>>)
             \o <<names[i], ": ", IF contains(skipped, names[i]) THEN "<skipped>"
                                  ELSE vals[names[i]]>>
             \o ExpectedParams(names, skipped, vals, i + 1)

CallNames == [i \in 1..Len(unwrap(tokens).inputs) |-> unwrap(tokens).inputs[i].ident]

CallSkipped ==
    IF is_some(unwrap(macro_args).params) THEN unwrap(unwrap(macro_args).params)
    ELSE CallNames

ExpectedIngressMsg ==
    <<"<= ", "f", "(">> \o ExpectedParams(CallNames, CallSkipped, unwrap(params_in), 1)
        \o <<"):">>

ExpectedValue(v) ==
    IF v.tag = "" THEN <<v.val>> ELSE IF v.tag = "Ok" THEN <<"Ok(", v.val, ")">>
    ELSE <<"Err(", v.val, ")">>

ExpectedEgressMsg(v) ==
    <<"f", "(">> \o ExpectedParams(CallNames, CallSkipped, unwrap(params_in), 1)
        \o <<") => ">> \o ExpectedValue(v)

\* The directive stands once on the function.
AppliedOnce == applications = 1

C9_SimpleEgressLogsOnceAfterBody ==
    (/\ pc \in {"pending", "returned"}
     /\ AppliedOnce
     /\ is_none(unwrap(macro_args).log_ingress_level)
     /\ is_some(unwrap(macro_args).log_egress_args)
     /\ unwrap(unwrap(macro_args).log_egress_args).variant = "Simple")
    => IF pc = "pending" THEN trace = <<>>
       ELSE /\ Len(trace) = 3
            /\ trace[1].ev = "body_start"
            /\ trace[2].ev = "body_end"
            /\ trace[3] = Event("log",
                                to_lowercase(unwrap(unwrap(macro_args).log_egress_args).level),
                                ExpectedEgressMsg(unwrap(trace[2].value)), None)

\* C9's case: a synchronous function under the bare-literal form was called.
C9_Witness ==
    /\ pc = "returned"
    /\ unwrap(macro_args) = [log_ingress_level |-> None,
                             log_egress_args |-> Some(Simple(s_info)),
                             params |-> None, debug |-> FALSE]
    /\ ~unwrap(tokens).asyncness
    /\ Len(unwrap(tokens).inputs) = 1
    /\ Len(trace) = 3

\* Where the original block ended in the trace (0 if it did not run).
BodyEnd == IF \E i \in 1..Len(trace) : trace[i].ev = "body_end"
           THEN CHOOSE i \in 1..Len(trace) : trace[i].ev = "body_end" ELSE 0

\* C10: with a Result egress mode, after the original block has ended a call
\* emits one log event at the ok level showing the success value if the block
\* succeeded and `ok` is configured, one at the err level showing the failure
\* value if it failed and `err` is configured, and nothing otherwise; before
\* the block there is the ingress log event, if `ingress` is set, and no other.
C10_ResultModeLogsTheMatchingArm ==
    (/\ pc = "returned"
     /\ AppliedOnce
     /\ is_some(unwrap(macro_args).log_egress_args)
     /\ unwrap(unwrap(macro_args).log_egress_args).variant = "Result")
    => LET mode == unwrap(unwrap(macro_args).log_egress_args)
           before == SubSeq(trace, 1, BodyEnd - 2)
           after == SubSeq(trace, BodyEnd + 1, Len(trace))
           value == unwrap(trace[BodyEnd].value)
           arm_level == IF value.tag = "Ok" THEN mode.ok_level ELSE mode.err_level
       IN  /\ BodyEnd >= 2
           /\ trace[BodyEnd - 1].ev = "body_start"
           /\ value.tag \in {"Ok", "Err"}
           /\ after = IF is_some(arm_level)
                      THEN <<Event("log", to_lowercase(unwrap(arm_level)),
                                   ExpectedEgressMsg(value), None)>>
                      ELSE <<>>
           /\ Len(before) = IF is_some(unwrap(macro_args).log_ingress_level) THEN 1 ELSE 0
           /\ \A i \in 1..Len(before) : before[i].ev = "log"

\* C10's case: under `ok` alone a suspending function failed, and one
\* succeeded: this is the one that succeeded, with its one log event.
C10_Witness ==
    /\ pc = "returned"
    /\ unwrap(macro_args).log_egress_args = Some(Result(Some(s_info), None))
    /\ is_none(unwrap(macro_args).log_ingress_level)
    /\ unwrap(tokens).asyncness
    /\ Len(trace) = 3 /\ trace[3].ev = "log"
    /\ unwrap(trace[2].value).tag = "Ok"

\* C11: in the four templates (synchronous or suspending, Simple or Result)
\* and with or without `ingress`, also when the directive is stacked, the value
\* handed to the caller is the value the user's code produced, tag and payload;
\* a future the call hands back has not run the user's code yet.
C11_ReturnsTheBodysValue ==
    /\ (pc = "returned" => /\ BodyEnd > 0
                           /\ returned = trace[BodyEnd].value
                           /\ unwrap(returned).tag # "future")
    /\ (pc = "pending" => BodyEnd = 0 /\ is_none(returned))

\* C11's case: a suspending function under `ok` alone (no `err` level) failed,
\* and the failure reached the caller.
C11_Witness ==
    /\ pc = "returned"
    /\ unwrap(tokens).asyncness
    /\ unwrap(macro_args).log_egress_args = Some(Result(Some(s_info), None))
    /\ returned = Some(Value("Err", "8"))
    /\ Len(trace) = 2

(***************************************************************************)
(* Properties of the format builder.                                       *)
(***************************************************************************)
\* The parameters of the function the macro has read, and the names the
\* format builder is told to skip (each of them, with no skip-list).
FnArgs == fn_args_of(unwrap(fn_item).inputs)

ToSkip ==
    IF is_some(unwrap(macro_args).params) THEN unwrap(unwrap(macro_args).params)
    ELSE FnArgs

\* The parameters that are not skipped, in order.
RECURSIVE NotSkipped(_, _)
NotSkipped(names, skipped) ==
    IF names = <<>> THEN <<>>
    ELSE (IF \E j \in 1..Len(skipped) : skipped[j] = Head(names) THEN <<>>
          ELSE <<Head(names)>>)
             \o NotSkipped(Tail(names), skipped)

\* C12: for the parameter list of the function and the skip-list of the
\* directive, and for either kind of identifier, the format string is, per
\* parameter and in order, the name, ": ", and the value placeholder or the
\* marker <skipped> for a skipped one, with ", " between two parameters and
\* neither before the first nor after the last; the values are the parameters
\* that are not skipped, in order, each followed by a comma, so that there are
\* as many values as value placeholders and nothing at all, no comma either,
\* when no parameter is left; and these are the format and the arguments of
\* the ingress log statement of the emitted function.
C12_FormatBuilder ==
    (Expanding /\ ~unknown_parameter(unwrap(fn_item).inputs)) =>
        LET n == Len(FnArgs)
            kept == NotSkipped(FnArgs, ToSkip)
        IN  \A builder \in {param_ident, cloned_param_ident} :
            LET built == build_input_format_arguments(builder, FnArgs, ToSkip)
                pieces == built.format_placeholders
                values == built.format_values
            IN  /\ Len(pieces) = IF n = 0 THEN 0 ELSE 4 * n - 1
                /\ \A i \in 1..n :
                       /\ pieces[4 * i - 3] = FnArgs[i]
                       /\ pieces[4 * i - 2] = ": "
                       /\ pieces[4 * i - 1] = IF FnArgs[i] \in {ToSkip[j] : j \in 1..Len(ToSkip)}
                                              THEN "<skipped>" ELSE "{:?}"
                       /\ (i < n => pieces[4 * i] = ", ")
                /\ Cardinality({i \in 1..Len(pieces) : pieces[i] = "{:?}"}) = Len(kept)
                /\ Len(values) = 2 * Len(kept)
                /\ \A i \in 1..Len(kept) :
                       /\ values[2 * i - 1] = Ident(builder, kept[i])
                       /\ values[2 * i] = Punct(",")
                /\ (Emitted /\ AppliedOnce /\ builder = param_ident
                        /\ is_some(unwrap(macro_args).log_ingress_level)) =>
                       \E log \in logs_of(unwrap(tokens).body) :
                           /\ log.fmt = <<"<= ", "{}", "(">> \o pieces \o <<"):">>
                           /\ log.args = [i \in 1..Len(kept) |-> Ident(builder, kept[i])]

\* C12's case: g(a, b) under `ingress` and skip=[b]: a is rendered, b is not.
C12_Witness ==
    /\ Emitted
    /\ FnArgs = <<"a", "b">>
    /\ unwrap(macro_args).params = Some(<<"b">>)
    /\ \E log \in logs_of(unwrap(tokens).body) :
           /\ log.fmt = <<"<= ", "{}", "(", "a", ": ", "{:?}", ", ", "b", ": ", "<skipped>", "):">>
           /\ log.args = <<Ident(param_ident, "a")>>

(***************************************************************************)
(* Properties of the emitted declaration.                                  *)
(***************************************************************************)
\* C13: the declaration the macro emits is the declaration it was given,
\* token for token up to the body: attributes, visibility, the qualifiers in
\* their order, name, generic parameters, parameters, return type and
\* where-clause.
C13_DeclarationKept ==
    Emitted => unwrap(tokens).decl = declaration(unwrap(fn_item))

(***************************************************************************)
(* Properties of the pattern detector and of what the macro does with its  *)
(* answer.                                                                 *)
(***************************************************************************)
\* What the detector answers for the function the macro has read.
Detected == get_async_trait_info(unwrap(fn_item).block, unwrap(fn_item).asyncness)

InlineWrapper == is_some(Detected) /\ unwrap(Detected).kind = "Async"

\* The user's code is among the statements that run when the function is
\* called, outside of any suspending block that is not awaited there.
RECURSIVE runs_at_call(_)
runs_at_call(stmts) ==
    \E i \in 1..Len(stmts) :
        LET s == stmts[i] IN
        CASE s.stmt \in {"block", "let_ret_closure", "let_ret_await"} ->
               IF "code" \in DOMAIN s.block THEN runs_at_call(s.block.code)
               ELSE ~is_pinned_future(s.block)
          [] s.stmt = "box_pin" -> runs_at_call(s.inner)
          [] s.stmt = "async_move" -> s.await /\ runs_at_call(s.inner)
          [] OTHER -> FALSE

\* C14: for a function the detector takes for an inline wrapper, whatever the
\* directive (with `ingress` alone too), the emitted body is one call of
\* Box::pin on a suspending computation that holds the inline block: the
\* user's code is not among what runs when the function is called.
C14_InlineWrapperStaysSuspending ==
    (Emitted /\ AppliedOnce /\ InlineWrapper) =>
        LET body == unwrap(tokens).body IN
        /\ Len(body) = 1
        /\ body[1].stmt = "box_pin"
        /\ value_kind(body[1].inner) = "future"
        /\ ~runs_at_call(body)

\* The block has the old wrapper construction: it declares a suspending
\* function `inner` and ends in Box::pin(inner()).
LegacyShape(item) ==
    /\ ~item.asyncness
    /\ item.block \in {block \in LegacyBlocks : block.stmts[1].asyncness}

\* C15: for a function of the old wrapper construction the macro fails with
\* the error that says the construction is not supported, whatever the
\* directive (a level that is none of the five, `debug`, `ingress` alone), and
\* emits nothing; and it fails so for no other function.
C15_LegacyWrapperRefused ==
    Expanding =>
        /\ (LegacyShape(unwrap(fn_item)) /\ ~unknown_parameter(unwrap(fn_item).inputs)) =>
               /\ pc = "aborted"
               /\ error = Some(Error("unimplemented", "", <<>>))
               /\ is_none(tokens)
        /\ (ErrorKind = "unimplemented" => LegacyShape(unwrap(fn_item)))

\* C15's case: the old construction under a directive of `ingress` alone.
C15_Witness ==
    /\ Expanding /\ LegacyShape(unwrap(fn_item))
    /\ ErrorKind = "unimplemented"
    /\ is_some(unwrap(macro_args).log_ingress_level)
    /\ is_none(unwrap(macro_args).log_egress_args)

\* C16: every log event after the user's code has ended shows each parameter
\* that is not skipped with the value it had at entry, whatever the user's
\* code did to the parameters, in the synchronous and the suspending templates
\* and in an inline wrapper.
C16_EgressShowsEntryValues ==
    (pc = "returned" /\ AppliedOnce /\ is_some(unwrap(macro_args).log_egress_args)) =>
        \A i \in (BodyEnd + 1)..Len(trace) :
            /\ trace[i].ev = "log"
            /\ trace[i].msg = ExpectedEgressMsg(unwrap(trace[BodyEnd].value))

\* C16's case: an inline wrapper whose user code consumed the parameter `a`,
\* which the egress log still shows with the value 1 it had at entry.
C16_Witness ==
    /\ pc = "returned"
    /\ unwrap(tokens).body[1].stmt = "box_pin"
    /\ unwrap(params_in)["a"] = "1"
    /\ unwrap(params_out)["a"] = Value("", "gone")
    /\ trace[Len(trace)].ev = "log"
    /\ trace[Len(trace)].msg = <<"f", "(", "a", ": ", "1", ") => ", "7">>

\* The directive is empty: no bare literal and no entry.
EmptyDirective == is_none(legacy_output) /\ n_entries = 0

StackedOnInlineWrapper ==
    /\ applications = 2
    /\ pc # "aborted"
    /\ "code" \in DOMAIN unwrap(fn_item).block
    /\ unwrap(fn_item).block.code # <<>>
    /\ unwrap(fn_item).block.code[1].stmt = "box_pin"

\* C18: applied to its own output for an inline wrapper, the macro takes that
\* output for an inline wrapper again, and emits one call of Box::pin whose
\* suspending computation holds the logging of the second application.
C18_StackedDetectsInlineWrapper ==
    StackedOnInlineWrapper =>
        /\ InlineWrapper
        /\ unwrap(tokens).body[1].stmt = "box_pin"

\* The final statement of the block is no expression statement.
FinalNotExpr(block) ==
    block.stmts = <<>> \/ block.stmts[Len(block.stmts)].stmt # "Expr"

\* C19: for a synchronous function whose final statement is no expression
\* statement the detector answers "not a wrapper", and the emitted body holds
\* the whole original block, not suspending.
C19_OnlyFinalStatementInspected ==
    (Expanding /\ AppliedOnce /\ ~unwrap(fn_item).asyncness
         /\ FinalNotExpr(unwrap(fn_item).block)) =>
        /\ is_none(Detected)
        /\ Emitted =>
               LET body == unwrap(tokens).body IN
               /\ \E i \in 1..Len(body) :
                      /\ body[i].stmt \in {"block", "let_ret_closure"}
                      /\ body[i].block = unwrap(fn_item).block
               /\ \A i \in 1..Len(body) : body[i].stmt \notin {"box_pin", "async_move"}

\* C20: the detector answers "inline wrapper" only if the statement it
\* inspected is a call whose path ends in the two segments Box and pin, with
\* exactly one argument, a suspending block with `move`.
C20_NoFalsePositive ==
    (Expanding /\ InlineWrapper) =>
        LET call == unwrap(Detected).source_stmt.expr IN
        /\ call.expr = "Call"
        /\ call.func.expr = "Path"
        /\ Len(call.func.path) >= 2
        /\ SubSeq(call.func.path, Len(call.func.path) - 1, Len(call.func.path))
               = <<s_Box, s_pin>>
        /\ Len(call.args) = 1
        /\ call.args[1].expr = "Async"
        /\ call.args[1].capture

====
